---- MODULE Spec2Model ----
(***************************************************************************)
(* CrosswordCreator (src/crossword/generate.py): a crossword is filled by  *)
(* node consistency, AC-3 and backtracking search.                         *)
(*                                                                         *)
(* Words are sequences of letters; Python's 0-based index w[k] is          *)
(* Char(w, k).  Crossword and Variable are the classes of module           *)
(* crossword, which generate.py imports: their geometry follows the data   *)
(* model of the design (variables, overlap map).                           *)
(***************************************************************************)
EXTENDS Integers, Sequences, FiniteSets, TLC

VARIABLES keys, words, hash_order, domains, pc, arcs, ac3_result, stack, result, ret

vars == <<keys, words, hash_order, domains, pc, arcs, ac3_result, stack, result, ret>>

(* ------------------------------ bounds --------------------------------- *)

\* at most this many variables in a crossword
MaxVars == 3
\* at most this many words in a vocabulary
MaxWords == 3

\* the alphabet of the vocabulary
Letters == {"A", "B"}
\* the lengths of the vocabulary's words
WordLengths == {1, 2}
\* the grid: rows and columns of the cells
Rows == {0, 1}
Cols == {0, 1}
\* the lengths of the grid's word slots
VarLengths == {2}

(* ------------------------- helpers (Python) ---------------------------- *)

\* w[k], 0-based
Char(w, k) == w[k + 1]

Range(s) == {s[k] : k \in 1..Len(s)}

\* the orders in which a set may be iterated
Perms(S) == {s \in [1..Cardinality(S) -> S] : \A a, b \in 1..Cardinality(S) : a # b => s[a] # s[b]}

\* the dict() of backtrack's root call
EmptyAssignment == [v \in {} |-> <<>>]

\* assignment_copy = assignment.copy(); assignment_copy[variable] = value
Extend(assignment, variable, value) ==
    [u \in (DOMAIN assignment) \cup {variable} |-> IF u = variable THEN value ELSE assignment[u]]

(* ---------------------- Crossword (spec-modelled) ---------------------- *)

\* no overlap
None == <<>>

AllWords == UNION {[1..n -> Letters] : n \in WordLengths}

Vocabularies == {W \in SUBSET AllWords : Cardinality(W) <= MaxWords}

\* Variable.cells: the cells a word slot covers, by 0-based offset
Cells(v) ==
    [k \in 0..(v.length - 1) |->
        IF v.direction = "down" THEN <<v.i + k, v.j>> ELSE <<v.i, v.j + k>>]

AllVariables ==
    {v \in [i : Rows, j : Cols, direction : {"across", "down"}, length : VarLengths] :
        \A k \in 0..(v.length - 1) : Cells(v)[k][1] \in Rows /\ Cells(v)[k][2] \in Cols}

\* Crossword.overlaps[v1, v2]: None, or the offsets (into v1, into v2) of the shared cell
overlaps(v1, v2) ==
    LET shared == {p \in (0..(v1.length - 1)) \X (0..(v2.length - 1)) :
                      Cells(v1)[p[1]] = Cells(v2)[p[2]]}
    IN  IF shared = {} THEN None ELSE CHOOSE p \in shared : TRUE

\* a well-formed grid: slots of one direction share no cell
WellFormed(vs) ==
    \A u, v \in vs : (u # v /\ u.direction = v.direction) =>
        \A a \in DOMAIN Cells(u), b \in DOMAIN Cells(v) : Cells(u)[a] # Cells(v)[b]

\* the crossword's variables, in the order the domains dict lists them
KeySeqs ==
    UNION {{s \in [1..n -> AllVariables] :
               /\ \A a, b \in 1..n : a # b => s[a] # s[b]
               /\ WellFormed({s[k] : k \in 1..n})} : n \in 0..MaxVars}

variables == Range(keys)

\* Crossword.neighbors(var)
neighbors(var) == {v \in variables \ {var} : overlaps(v, var) # None}

(* ------------------------- CrosswordCreator ---------------------------- *)

\* __init__: every variable starts with a copy of the whole vocabulary
InitialDomains(ks, ws) == [v \in Range(ks) |-> ws]

\* IsNot without the cache of small ints: two ints are never one object
IsNotUncached(a, b) == TRUE

\* `a is not b` on two ints: CPython keeps one object per int in -5..256, so
\* there identity is equality; two larger equal ints are distinct objects
IsNot(a, b) == IF a \in -5..256 /\ b \in -5..256 THEN a # b ELSE TRUE

\* enforce_node_consistency filling each domain with every word of the
\* variable's length, in the vocabulary or not
EnforceNodeConsistencyRefilled(doms) ==
    [v \in DOMAIN doms |-> {word \in AllWords : ~IsNot(Len(word), v.length)}]

\* enforce_node_consistency
EnforceNodeConsistency(doms) ==
    [v \in DOMAIN doms |-> {word \in doms[v] : ~IsNot(Len(word), v.length)}]

\* Revise with the two offsets taken in the wrong order
ReviseSwapped(doms, x, y) ==
    LET x_overlap == overlaps(x, y)[2]
        y_overlap == overlaps(x, y)[1]
        kept == IF x_overlap # 0
                THEN {x_word \in doms[x] :
                        \E y_word \in doms[y] :
                            Char(x_word, x_overlap) = Char(y_word, y_overlap)}
                ELSE doms[x]
    IN  [domains |-> [doms EXCEPT ![x] = kept], revised |-> kept # doms[x]]

\* Revise keeping a word of x only if every word of y agrees with it
ReviseEvery(doms, x, y) ==
    LET x_overlap == overlaps(x, y)[1]
        y_overlap == overlaps(x, y)[2]
        kept == IF x_overlap # 0
                THEN {x_word \in doms[x] :
                        \A y_word \in doms[y] :
                            Char(x_word, x_overlap) = Char(y_word, y_overlap)}
                ELSE doms[x]
    IN  [domains |-> [doms EXCEPT ![x] = kept], revised |-> kept # doms[x]]

\* revise(x, y): the domains afterwards and the value returned
Revise(doms, x, y) ==
    LET x_overlap == overlaps(x, y)[1]
        y_overlap == overlaps(x, y)[2]
        kept == IF x_overlap # 0
                THEN {x_word \in doms[x] :
                        \E y_word \in doms[y] :
                            Char(x_word, x_overlap) = Char(y_word, y_overlap)}
                ELSE doms[x]
    IN  [domains |-> [doms EXCEPT ![x] = kept], revised |-> kept # doms[x]]

\* the lists `[(x, y) for x in self.domains for y in neighbors(x)]` can be:
\* x in dict order, y in the iteration order of a set
RECURSIVE ArcLists(_)
ArcLists(ks) ==
    IF ks = <<>> THEN {<<>>}
    ELSE {[k \in 1..Len(p) |-> <<Head(ks), p[k]>>] \o rest :
             p \in Perms(neighbors(Head(ks))), rest \in ArcLists(Tail(ks))}

\* one of the orders in which a set may be iterated
RECURSIVE OneSeq(_)
OneSeq(S) == IF S = {} THEN <<>> ELSE LET e == CHOOSE e \in S : TRUE IN <<e>> \o OneSeq(S \ {e})

\* ac3(arcs), lines 153-161, as one call on the list `queue`: the domains
\* afterwards and the value returned, sets being iterated in the order OneSeq
RECURSIVE ac3(_, _)
ac3(doms, queue) ==
    IF queue = <<>> THEN [domains |-> doms, value |-> "True"]
    ELSE LET x == Head(queue)[1]
             y == Head(queue)[2]
             r == Revise(doms, x, y)
             more == OneSeq(neighbors(x) \ {y})
         IN  IF r.revised /\ r.domains[x] = {}
             THEN [domains |-> r.domains, value |-> "False"]
             ELSE IF r.revised
             THEN ac3(r.domains, Tail(queue) \o [k \in 1..Len(more) |-> <<more[k], x>>])
             ELSE ac3(r.domains, Tail(queue))

\* assignment_complete
assignment_complete(assignment) == \A variable \in variables : variable \in DOMAIN assignment

\* consistent without the test for a word used twice
consistent_no_distinct(assignment) ==
    IF \E variable \in DOMAIN assignment :
            variable.length # Len(assignment[variable]) THEN FALSE
    ELSE ~ \E variable \in DOMAIN assignment :
             \E neighbour \in neighbors(variable) :
                /\ neighbour \in DOMAIN assignment
                /\ Char(assignment[variable], overlaps(variable, neighbour)[1])
                     # Char(assignment[neighbour], overlaps(variable, neighbour)[2])

\* consistent with the test for a word used twice read as its name reads:
\* False when all the words are distinct
consistent_name_trusted(assignment) ==
    LET ws == {assignment[v] : v \in DOMAIN assignment}
        all_values_are_distinct == Cardinality(DOMAIN assignment) = Cardinality(ws)
    IN  IF all_values_are_distinct THEN FALSE
        ELSE IF \E variable \in DOMAIN assignment :
                    variable.length # Len(assignment[variable]) THEN FALSE
        ELSE ~ \E variable \in DOMAIN assignment :
                 \E neighbour \in neighbors(variable) :
                    /\ neighbour \in DOMAIN assignment
                    /\ Char(assignment[variable], overlaps(variable, neighbour)[1])
                         # Char(assignment[neighbour], overlaps(variable, neighbour)[2])

\* consistent
consistent(assignment) ==
    LET ws == {assignment[v] : v \in DOMAIN assignment}
        all_values_are_distinct == Cardinality(DOMAIN assignment) # Cardinality(ws)
    IN  IF all_values_are_distinct THEN FALSE
        ELSE IF \E variable \in DOMAIN assignment :
                    variable.length # Len(assignment[variable]) THEN FALSE
        ELSE ~ \E variable \in DOMAIN assignment :
                 \E neighbour \in neighbors(variable) :
                    /\ neighbour \in DOMAIN assignment
                    /\ Char(assignment[variable], overlaps(variable, neighbour)[1])
                         # Char(assignment[neighbour], overlaps(variable, neighbour)[2])

\* sorted(items, key): Python's sort is stable
RECURSIVE Insert(_, _, _)
Insert(sorted, item, key) ==
    IF sorted = <<>> THEN <<item>>
    ELSE IF key[item] < key[Head(sorted)] THEN <<item>> \o sorted
    ELSE <<Head(sorted)>> \o Insert(Tail(sorted), item, key)

RECURSIVE Sorted(_, _)
Sorted(items, key) ==
    IF items = <<>> THEN <<>>
    ELSE Insert(Sorted(SubSeq(items, 1, Len(items) - 1), key), items[Len(items)], key)

\* SortedChoices leaving out the variables whose domain is empty
SortedChoicesNonEmpty(doms, assignment) ==
    LET NotAssigned(variable) == variable \notin DOMAIN assignment /\ doms[variable] # {}
        choices == SelectSeq(keys, NotAssigned)
    IN  Sorted(choices, [v \in Range(choices) |-> Cardinality(doms[v])])

\* select_unassigned_variable: the sorted choices; the code returns the first
SortedChoices(doms, assignment) ==
    LET NotAssigned(variable) == variable \notin DOMAIN assignment
        choices == SelectSeq(keys, NotAssigned)
    IN  Sorted(choices, [v \in Range(choices) |-> Cardinality(doms[v])])

\* select_unassigned_variable without the sort: the first unassigned variable
select_first_unassigned(doms, assignment) ==
    LET NotAssigned(variable) == variable \notin DOMAIN assignment
    IN  Head(SelectSeq(keys, NotAssigned))

select_unassigned_variable(doms, assignment) == Head(SortedChoices(doms, assignment))

(* ------------------------------ solve() -------------------------------- *)

NoCall == [op |-> "none"]

\* solve() has not returned
NotReturned == [returned |-> FALSE, none |-> FALSE, assignment |-> EmptyAssignment]

\* the state after CrosswordCreator(crossword), solve() about to run
Init ==
    /\ keys \in KeySeqs
    /\ words \in Vocabularies
    /\ hash_order = <<>>
    /\ domains = InitialDomains(keys, words)
    /\ pc = "solve"
    /\ arcs = <<>>
    /\ ac3_result = "none"
    /\ stack = <<>>
    /\ result = NotReturned
    /\ ret = NoCall

\* solve, line 93: self.enforce_node_consistency()
SolveNodeConsistency ==
    /\ pc = "solve"
    /\ domains' = EnforceNodeConsistency(domains)
    /\ pc' = "ac3_call"
    /\ UNCHANGED <<keys, words, hash_order, arcs, ac3_result, stack, result, ret>>

\* solve, line 94: self.ac3() with arcs None: the initial list of all arcs
Ac3Begin ==
    /\ pc = "ac3_call"
    /\ arcs' \in ArcLists(keys)
    /\ pc' = "ac3"
    /\ UNCHANGED <<keys, words, hash_order, domains, ac3_result, stack, result, ret>>

\* Ac3Step appending the arcs whether or not revise removed a word
Ac3StepAlwaysAppend ==
    /\ pc = "ac3"
    /\ arcs # <<>>
    /\ LET x == Head(arcs)[1]
           y == Head(arcs)[2]
           r == Revise(domains, x, y)
       IN  /\ domains' = r.domains
           /\ IF r.revised /\ r.domains[x] = {}
              THEN /\ arcs' = <<>>
                   /\ ac3_result' = "False"
                   /\ pc' = "ac3_returned"
              ELSE /\ \E more \in Perms(neighbors(x) \ {y}) :
                         arcs' = Tail(arcs) \o [k \in 1..Len(more) |-> <<more[k], x>>]
                   /\ UNCHANGED <<ac3_result, pc>>
    /\ UNCHANGED <<keys, words, hash_order, stack, result, ret>>

\* Ac3Step appending an arc for every neighbour of x, y included
Ac3StepEveryNeighbor ==
    /\ pc = "ac3"
    /\ arcs # <<>>
    /\ LET x == Head(arcs)[1]
           y == Head(arcs)[2]
           r == Revise(domains, x, y)
       IN  /\ domains' = r.domains
           /\ IF r.revised /\ r.domains[x] = {}
              THEN /\ arcs' = <<>>
                   /\ ac3_result' = "False"
                   /\ pc' = "ac3_returned"
              ELSE /\ IF r.revised
                      THEN \E more \in Perms(neighbors(x)) :
                              arcs' = Tail(arcs) \o [k \in 1..Len(more) |-> <<more[k], x>>]
                      ELSE arcs' = Tail(arcs)
                   /\ UNCHANGED <<ac3_result, pc>>
    /\ UNCHANGED <<keys, words, hash_order, stack, result, ret>>

\* ac3, lines 153-159: one turn of `while arcs`; the list is local, and is
\* dropped when ac3 returns
Ac3Step ==
    /\ pc = "ac3"
    /\ arcs # <<>>
    /\ LET x == Head(arcs)[1]
           y == Head(arcs)[2]
           r == Revise(domains, x, y)
       IN  /\ domains' = r.domains
           /\ IF r.revised /\ r.domains[x] = {}
              THEN /\ arcs' = <<>>
                   /\ ac3_result' = "False"
                   /\ pc' = "ac3_returned"
              ELSE /\ IF r.revised
                      THEN \E more \in Perms(neighbors(x) \ {y}) :
                              arcs' = Tail(arcs) \o [k \in 1..Len(more) |-> <<more[k], x>>]
                      ELSE arcs' = Tail(arcs)
                   /\ UNCHANGED <<ac3_result, pc>>
    /\ UNCHANGED <<keys, words, hash_order, stack, result, ret>>

\* ac3, line 161: the queue is empty, return True
Ac3ReturnTrue ==
    /\ pc = "ac3"
    /\ arcs = <<>>
    /\ ac3_result' = "True"
    /\ pc' = "ac3_returned"
    /\ UNCHANGED <<keys, words, hash_order, domains, arcs, stack, result, ret>>

Top == stack[Len(stack)]

\* `for word in S`: a set of words is iterated in the order of the hashes
Iter(order, S) == LET InS(w) == w \in S IN SelectSeq(order, InS)

Returned(value) == [returned |-> TRUE, none |-> FALSE, assignment |-> value]

ReturnedNone == [returned |-> TRUE, none |-> TRUE, assignment |-> EmptyAssignment]

\* backtrack(assignment) is called under the frames stk, the sets of words being
\* iterated in `order`; lines 271-275: a
\* complete assignment is returned, through every caller (line 284) and solve;
\* otherwise the variable to branch on is selected and its domain is to try
Call(stk, assignment, order) ==
    IF Cardinality(DOMAIN assignment) = Cardinality(DOMAIN domains)
    THEN /\ result' = Returned(assignment)
         /\ stack' = <<>>
         /\ pc' = "done"
    ELSE IF SortedChoices(domains, assignment) = <<>>
    THEN /\ pc' = "error"
         /\ stack' = stk
         /\ UNCHANGED result
    ELSE LET variable == select_unassigned_variable(domains, assignment)
         IN  /\ stack' = Append(stk, [assignment |-> assignment, variable |-> variable,
                                      todo |-> Iter(order, domains[variable])])
             /\ pc' = "backtrack"
             /\ UNCHANGED result

\* solve, line 95: return self.backtrack(dict()), whatever ac3 returned.  The
\* search is the first to depend on the order in which the sets of words are
\* iterated, so that order is drawn here
SolveCallBacktrack ==
    /\ pc = "ac3_returned"
    /\ \E order \in Perms(UNION {domains[v] : v \in DOMAIN domains}) :
          /\ hash_order' = order
          /\ Call(<<>>, EmptyAssignment, order)
    /\ UNCHANGED <<keys, words, domains, arcs, ac3_result, ret>>

\* BacktrackTry making the recursive call whether or not the extended
\* assignment is consistent
BacktrackTryUnchecked ==
    /\ pc = "backtrack"
    /\ Top.todo # <<>>
    /\ LET value == Head(Top.todo)
           assignment_copy == Extend(Top.assignment, Top.variable, value)
           rest == [stack EXCEPT ![Len(stack)].todo = Tail(Top.todo)]
       IN  Call(rest, assignment_copy, hash_order)
    /\ UNCHANGED <<keys, words, hash_order, domains, arcs, ac3_result, ret>>

\* BacktrackTry writing the value into the caller's assignment, no copy made
BacktrackTryInPlace ==
    /\ pc = "backtrack"
    /\ Top.todo # <<>>
    /\ LET value == Head(Top.todo)
           assignment_copy == Extend(Top.assignment, Top.variable, value)
           rest == [stack EXCEPT ![Len(stack)].todo = Tail(Top.todo),
                                 ![Len(stack)].assignment = assignment_copy]
       IN  IF consistent(assignment_copy)
           THEN Call(rest, assignment_copy, hash_order)
           ELSE /\ stack' = rest
                /\ UNCHANGED <<pc, result>>
    /\ UNCHANGED <<keys, words, hash_order, domains, arcs, ac3_result, ret>>

\* backtrack, lines 277-282: the next value of the variable's domain is tried;
\* a consistent extension is searched by a recursive call
BacktrackTry ==
    /\ pc = "backtrack"
    /\ Top.todo # <<>>
    /\ LET value == Head(Top.todo)
           assignment_copy == Extend(Top.assignment, Top.variable, value)
           rest == [stack EXCEPT ![Len(stack)].todo = Tail(Top.todo)]
       IN  IF consistent(assignment_copy)
           THEN Call(rest, assignment_copy, hash_order)
           ELSE /\ stack' = rest
                /\ UNCHANGED <<pc, result>>
    /\ UNCHANGED <<keys, words, hash_order, domains, arcs, ac3_result, ret>>

\* backtrack, line 286: no value is left, return None; the caller goes on
\* with its loop (line 283), and solve returns what the root call returned
BacktrackFail ==
    /\ pc = "backtrack"
    /\ Top.todo = <<>>
    /\ stack' = SubSeq(stack, 1, Len(stack) - 1)
    /\ IF Len(stack) = 1
       THEN /\ result' = ReturnedNone
            /\ pc' = "done"
       ELSE UNCHANGED <<result, pc>>
    /\ UNCHANGED <<keys, words, hash_order, domains, arcs, ac3_result, ret>>

Next ==
    \/ SolveNodeConsistency
    \/ Ac3Begin
    \/ Ac3Step
    \/ Ac3ReturnTrue
    \/ SolveCallBacktrack
    \/ BacktrackTry
    \/ BacktrackFail

Spec == Init /\ [][Next]_vars

(* ---------------- the methods, called one by one by a caller ----------- *)

\* the assignments a caller can pass: some of the variables, vocabulary words
Assignments == UNION {[S -> words] : S \in SUBSET variables}

\* the state after CrosswordCreator(crossword), no method called yet
InitUnit ==
    /\ keys \in KeySeqs
    /\ words \in Vocabularies
    /\ hash_order = <<>>
    /\ domains = InitialDomains(keys, words)
    /\ pc = "unit"
    /\ arcs = <<>>
    /\ ac3_result = "none"
    /\ stack = <<>>
    /\ result = NotReturned
    /\ ret = NoCall

\* consistent(assignment) on the new object: it reads the crossword only
UnitConsistent ==
    /\ pc = "unit"
    /\ \E assignment \in Assignments :
          ret' = [op |-> "consistent", assignment |-> assignment,
                  value |-> consistent(assignment)]
    /\ pc' = "unit_end"
    /\ UNCHANGED <<keys, words, hash_order, domains, arcs, ac3_result, stack, result>>

\* enforce_node_consistency()
UnitNodeConsistency ==
    /\ pc = "unit"
    /\ domains' = EnforceNodeConsistency(domains)
    /\ ret' = [op |-> "enforce_node_consistency"]
    /\ pc' = "unit_nc"
    /\ UNCHANGED <<keys, words, hash_order, arcs, ac3_result, stack, result>>

\* revise(x, y) for two neighbours, the domains node consistent
UnitRevise ==
    /\ pc = "unit_nc"
    /\ \E x \in variables : \E y \in neighbors(x) :
          LET r == Revise(domains, x, y)
          IN  /\ domains' = r.domains
              /\ ret' = [op |-> "revise", x |-> x, y |-> y, before |-> domains,
                         value |-> r.revised]
    /\ UNCHANGED <<keys, words, hash_order, pc, arcs, ac3_result, stack, result>>

\* select_unassigned_variable(assignment), some variable being unassigned
UnitSelect ==
    /\ pc = "unit_nc"
    /\ \E assignment \in Assignments :
          /\ DOMAIN assignment # variables
          /\ ret' = [op |-> "select_unassigned_variable", assignment |-> assignment,
                     value |-> select_unassigned_variable(domains, assignment)]
    /\ pc' = "unit_end"
    /\ UNCHANGED <<keys, words, hash_order, domains, arcs, ac3_result, stack, result>>

NextUnit ==
    \/ UnitConsistent
    \/ UnitNodeConsistency
    \/ UnitRevise
    \/ UnitSelect

SpecUnit == InitUnit /\ [][NextUnit]_vars

(* ------------------ order_domain_values(var, assignment) --------------- *)

\* order_domain_values listing the words most ruled out first
order_domain_values_descending(doms, var, assignment, order) ==
    LET open == {n \in neighbors(var) : n \notin DOMAIN assignment}
        pairs == UNION {{n} \X doms[n] : n \in open}
        count == [word \in doms[var] |->
                     Cardinality({p \in pairs :
                         Char(word, overlaps(var, p[1])[1]) # Char(p[2], overlaps(var, p[1])[2])})]
    IN  Sorted(Iter(order, doms[var]), [word \in doms[var] |-> 0 - count[word]])

\* order_domain_values: `order` is the iteration order of the set domains[var],
\* in which the dict `words` is filled; count[word] is the number of pairs
\* (neighbour not in assignment, neighbour_word) that differ from word at the
\* overlap; sorted() is stable
order_domain_values(doms, var, assignment, order) ==
    LET open == {n \in neighbors(var) : n \notin DOMAIN assignment}
        pairs == UNION {{n} \X doms[n] : n \in open}
        count == [word \in doms[var] |->
                     Cardinality({p \in pairs :
                         Char(word, overlaps(var, p[1])[1]) # Char(p[2], overlaps(var, p[1])[2])})]
    IN  Sorted(Iter(order, doms[var]), count)

\* the state after CrosswordCreator(crossword); the order of the domains dict
\* plays no part in order_domain_values
InitOrder ==
    /\ keys \in {OneSeq(S) : S \in {T \in SUBSET AllVariables :
                                      Cardinality(T) <= MaxVars /\ WellFormed(T)}}
    /\ words \in Vocabularies
    /\ hash_order = <<>>
    /\ domains = InitialDomains(keys, words)
    /\ pc = "unit"
    /\ arcs = <<>>
    /\ ac3_result = "none"
    /\ stack = <<>>
    /\ result = NotReturned
    /\ ret = NoCall

\* an assignment of words of their domains to the variables of S; the call
\* reads only which variables it holds
SomeAssignment(S) == [v \in S |-> CHOOSE w \in domains[v] : TRUE]

\* order_domain_values(var, assignment) on node-consistent domains, for each
\* set of assigned variables and each iteration order of domains[var]
UnitOrderDomainValues ==
    /\ pc = "unit_nc"
    /\ \E var \in variables :
       \E S \in SUBSET {v \in variables \ {var} : domains[v] # {}} :
       \E order \in Perms(domains[var]) :
          /\ hash_order' = order
          /\ ret' = [op |-> "order_domain_values", var |-> var,
                     assignment |-> SomeAssignment(S),
                     value |-> order_domain_values(domains, var, SomeAssignment(S), order)]
    /\ pc' = "unit_end"
    /\ UNCHANGED <<keys, words, domains, arcs, ac3_result, stack, result>>

NextOrder ==
    \/ UnitNodeConsistency
    \/ UnitRevise
    \/ UnitOrderDomainValues

SpecOrder == InitOrder /\ [][NextOrder]_vars

(* ------------------- ac3(arcs), the arcs in any order ------------------- *)

\* a grid one column wider, where a variable can overlap one neighbour at its
\* offset 0 and another at its offset 1
WideCols == {0, 1, 2}

WideVariables ==
    {v \in [i : Rows, j : WideCols, direction : {"across", "down"}, length : VarLengths] :
        \A k \in 0..(v.length - 1) : Cells(v)[k][1] \in Rows /\ Cells(v)[k][2] \in WideCols}

\* vocabularies over one more letter, so that a word can lose its only
\* support to a revision and another word of the domain keep its own
WideLetters == {"A", "B", "C"}

WideVocabularies ==
    {W \in SUBSET UNION {[1..n -> WideLetters] : n \in VarLengths} : Cardinality(W) <= MaxWords}

\* every arc of the crossword: what `arcs` is when ac3 is given None
AllArcs == {a \in variables \X variables : a[2] \in neighbors(a[1])}

\* the state after CrosswordCreator(crossword) for a crossword of the wide
\* grid; the order of the domains dict plays no part in ac3(arcs)
InitAc3 ==
    /\ keys \in {OneSeq(S) : S \in {T \in SUBSET WideVariables :
                                      Cardinality(T) <= MaxVars /\ WellFormed(T)}}
    /\ words \in WideVocabularies
    /\ hash_order = <<>>
    /\ domains = InitialDomains(keys, words)
    /\ pc = "unit"
    /\ arcs = <<>>
    /\ ac3_result = "none"
    /\ stack = <<>>
    /\ result = NotReturned
    /\ ret = NoCall

\* ac3(arcs) is called with a list of all the arcs, in some order: the arcs of
\* the list not popped yet are kept as the set ret.listed, the one popped next
\* being any of them; the variable arcs holds what the call has appended
UnitAc3Call ==
    /\ pc = "unit_nc"
    /\ ret' = [op |-> "ac3", listed |-> AllArcs]
    /\ arcs' = <<>>
    /\ pc' = "unit_ac3"
    /\ UNCHANGED <<keys, words, hash_order, domains, ac3_result, stack, result>>

\* UnitAc3Step appending no arc after a revision
UnitAc3StepNoAppend ==
    /\ pc = "unit_ac3"
    /\ ret.listed # {} \/ arcs # <<>>
    /\ \E arc \in IF ret.listed # {} THEN ret.listed ELSE {Head(arcs)} :
          LET x == arc[1]
              y == arc[2]
              r == Revise(domains, x, y)
              rest == IF ret.listed # {} THEN arcs ELSE Tail(arcs)
          IN  /\ domains' = r.domains
              /\ IF r.revised /\ r.domains[x] = {}
                 THEN /\ arcs' = <<>>
                      /\ ret' = [ret EXCEPT !.listed = {}]
                      /\ ac3_result' = "False"
                      /\ pc' = "unit_end"
                 ELSE /\ arcs' = rest
                      /\ ret' = [ret EXCEPT !.listed = @ \ {arc}]
                      /\ UNCHANGED <<ac3_result, pc>>
    /\ UNCHANGED <<keys, words, hash_order, stack, result>>

\* ac3, lines 153-159: one turn of `while arcs`: the arc popped is the next of
\* the list given, and once that is used up the first of the arcs appended
UnitAc3Step ==
    /\ pc = "unit_ac3"
    /\ ret.listed # {} \/ arcs # <<>>
    /\ \E arc \in IF ret.listed # {} THEN ret.listed ELSE {Head(arcs)} :
          LET x == arc[1]
              y == arc[2]
              r == Revise(domains, x, y)
              rest == IF ret.listed # {} THEN arcs ELSE Tail(arcs)
          IN  /\ domains' = r.domains
              /\ IF r.revised /\ r.domains[x] = {}
                 THEN /\ arcs' = <<>>
                      /\ ret' = [ret EXCEPT !.listed = {}]
                      /\ ac3_result' = "False"
                      /\ pc' = "unit_end"
                 ELSE /\ IF r.revised
                         THEN \E more \in Perms(neighbors(x) \ {y}) :
                                 arcs' = rest \o [k \in 1..Len(more) |-> <<more[k], x>>]
                         ELSE arcs' = rest
                      /\ ret' = [ret EXCEPT !.listed = @ \ {arc}]
                      /\ UNCHANGED <<ac3_result, pc>>
    /\ UNCHANGED <<keys, words, hash_order, stack, result>>

\* ac3, line 161: nothing is left to pop, return True
UnitAc3ReturnTrue ==
    /\ pc = "unit_ac3"
    /\ ret.listed = {}
    /\ arcs = <<>>
    /\ ac3_result' = "True"
    /\ pc' = "unit_end"
    /\ UNCHANGED <<keys, words, hash_order, domains, arcs, stack, result, ret>>

NextAc3 ==
    \/ UnitNodeConsistency
    \/ UnitAc3Call
    \/ UnitAc3Step
    \/ UnitAc3ReturnTrue

SpecAc3 == InitAc3 /\ [][NextAc3]_vars

(* ------------------------------ claims --------------------------------- *)

\* the two words agree on the cell two overlapping variables share
Agree(u, wu, v, wv) ==
    overlaps(u, v) # None => Char(wu, overlaps(u, v)[1]) = Char(wv, overlaps(u, v)[2])

\* a filled crossword: every variable has a word of its length, no word is
\* used twice, crossing words agree on the shared letter
IsSolution(a) ==
    /\ DOMAIN a = variables
    /\ \A v \in variables : Len(a[v]) = v.length
    /\ \A u, v \in variables : u # v => a[u] # a[v] /\ Agree(u, a[u], v, a[v])

\* C1: whenever solve() returns an assignment (not None), it gives every
\* variable a word of the variable's length, the words are pairwise distinct
\* and every two overlapping variables agree on the letter of the shared cell
C1_Soundness ==
    (result.returned /\ ~result.none) => IsSolution(result.assignment)

\* C1 happens: solve() has returned a filling of three crossing variables
C1_Witness ==
    /\ result.returned /\ ~result.none
    /\ Cardinality(variables) = 3
    /\ \E v \in variables : Cardinality(neighbors(v)) = 2

ArcConsistent(doms) ==
    \A x, y \in variables : (x # y /\ overlaps(x, y) # None) =>
        \A w \in doms[x] : \E v \in doms[y] : Agree(x, w, y, v)

\* C3: after enforce_node_consistency() and then ac3() returning True, every
\* word of domain(x) has a word of domain(y) agreeing at the overlap offsets,
\* for every overlapping ordered pair (x, y), offset 0 into x included
C3_ArcConsistency ==
    ac3_result = "True" => ArcConsistent(domains)

\* C4: after revise(x, y) on node-consistent domains, domain(x) is the set of
\* its former words that have an agreeing word in domain(y), the other domains
\* are as before, and True is returned iff a word was removed; x's offset may be 0
C4_ReviseContract ==
    ret.op = "revise" =>
        /\ domains[ret.x] = {w \in ret.before[ret.x] :
                                \E v \in ret.before[ret.y] : Agree(ret.x, w, ret.y, v)}
        /\ \A v \in variables \ {ret.x} : domains[v] = ret.before[v]
        /\ ret.value = (domains[ret.x] # ret.before[ret.x])

\* C5: ac3() returns True only if no variable's domain is empty
C5_TrueOnlyIfNoEmptyDomain ==
    ac3_result = "True" => \A v \in variables : domains[v] # {}

\* C6: when ac3() has returned False, backtrack is never called and solve()
\* returns None
C6_ShortCircuit ==
    ac3_result = "False" => /\ stack = <<>>
                            /\ pc # "backtrack"
                            /\ result.returned => result.none

\* some variable has a length that no word of the vocabulary has
MissingLength == \E v \in variables : \A w \in words : Len(w) # v.length

RECURSIVE SumOver(_, _)
SumOver(S, f) == IF S = {} THEN 0 ELSE LET e == CHOOSE e \in S : TRUE IN f[e] + SumOver(S \ {e}, f)

RECURSIVE Power(_, _)
Power(b, n) == IF n = 0 THEN 1 ELSE b * Power(b, n - 1)

\* what is left of solve(), as a number: the statements of solve still to
\* run; in ac3 the words still in the domains (a revision makes at most
\* Len(keys) new arcs) and the arcs queued; in backtrack the candidates still
\* to try, those of an outer call counting more than all of an inner call's
Rank ==
    LET n == Len(keys)
        base == 2 * MaxWords + 2
        search == Power(base, n)
        inDomains == SumOver(variables, [v \in variables |-> Cardinality(domains[v])])
        inStack == SumOver(1..Len(stack),
                           [l \in 1..Len(stack) |->
                               (2 * Len(stack[l].todo) + 1) * Power(base, n - l)])
    IN  CASE pc = "solve" -> search + (n + 1) * n * Cardinality(words) + n * n + 4
          [] pc = "ac3_call" -> search + (n + 1) * n * Cardinality(words) + n * n + 3
          [] pc = "ac3" -> search + (n + 1) * inDomains + Len(arcs) + 2
          [] pc = "ac3_returned" -> search + 1
          [] pc = "backtrack" -> inStack
          [] OTHER -> 0

\* C7: if the vocabulary has no word of the length of some variable, solve()
\* ends and returns None: no step of it fails, a step is left until it has
\* returned, every step leaves less to do, and None is what it returns
C7_MissingLengthReturnsNone ==
    /\ [](MissingLength => /\ pc # "error"
                           /\ pc = "done" \/ ENABLED Next
                           /\ pc = "done" <=> result.returned
                           /\ result.returned => result.none)
    /\ [][MissingLength => Rank' < Rank]_vars

\* C7 happens: solve() has returned None for a crossword of crossing
\* variables and a non-empty vocabulary without a word of their length
C7_Witness ==
    /\ MissingLength
    /\ words # {}
    /\ \E v \in variables : neighbors(v) # {}
    /\ pc = "done" /\ result.returned /\ result.none

\* C8 as a predicate of its own: distinct words, right lengths, agreeing
\* overlaps among the assigned variables
TruthTable(a) ==
    /\ \A u, v \in DOMAIN a : u # v => a[u] # a[v]
    /\ \A v \in DOMAIN a : Len(a[v]) = v.length
    /\ \A u, v \in DOMAIN a : u # v => Agree(u, a[u], v, a[v])

\* C8: consistent(assignment) is True iff the assigned words are pairwise
\* distinct, each has its variable's length, and every two assigned
\* neighbours agree at their overlap; unassigned neighbours are skipped
C8_ConsistentTruthTable ==
    ret.op = "consistent" => ret.value = TruthTable(ret.assignment)

\* C8 happens: consistent() has returned False for a partial assignment
\* whose only fault is a word used twice
C8_Witness ==
    /\ ret.op = "consistent" /\ ~ret.value
    /\ DOMAIN ret.assignment # variables
    /\ \E u, v \in DOMAIN ret.assignment : u # v /\ ret.assignment[u] = ret.assignment[v]
    /\ \A v \in DOMAIN ret.assignment : Len(ret.assignment[v]) = v.length
    /\ \A u, v \in DOMAIN ret.assignment : u # v => Agree(u, ret.assignment[u], v, ret.assignment[v])

C10_MinimumRemainingValues ==
    ret.op = "select_unassigned_variable" =>
        /\ ret.value \in variables \ DOMAIN ret.assignment
        /\ \A u \in variables \ DOMAIN ret.assignment :
              Cardinality(domains[ret.value]) <= Cardinality(domains[u])

\* C10 happens: with a variable assigned, the one selected has a domain
\* strictly smaller than that of an unassigned variable listed before it
C10_Witness ==
    /\ ret.op = "select_unassigned_variable"
    /\ DOMAIN ret.assignment # {}
    /\ \E a, b \in 1..Len(keys) :
          /\ a < b
          /\ keys[b] = ret.value
          /\ keys[a] \notin DOMAIN ret.assignment
          /\ Cardinality(domains[keys[b]]) < Cardinality(domains[keys[a]])

\* the unassigned variables whose domain is of the least size
TiedForMinimum(assignment) ==
    {v \in variables \ DOMAIN assignment :
        \A u \in variables \ DOMAIN assignment :
            Cardinality(domains[v]) <= Cardinality(domains[u])}

\* C11: when several unassigned variables share the least domain size,
\* select_unassigned_variable returns one of them that has the most neighbours
C11_DegreeTieBreak ==
    ret.op = "select_unassigned_variable" =>
        /\ ret.value \in TiedForMinimum(ret.assignment)
        /\ \A u \in TiedForMinimum(ret.assignment) :
              Cardinality(neighbors(u)) <= Cardinality(neighbors(ret.value))

\* the number of words the choice of word for var rules out of the domains
\* of var's neighbours that have no word yet
Cost(var, word, assignment) ==
    LET open == neighbors(var) \ DOMAIN assignment
        RuledOut(n) == {u \in domains[n] :
                           Char(word, overlaps(var, n)[1]) # Char(u, overlaps(var, n)[2])}
    IN  SumOver(open, [n \in open |-> Cardinality(RuledOut(n))])

\* C12: in every call of backtrack the words still to try are in the order of
\* order_domain_values: none rules out fewer words than one tried before it
C12_LeastConstrainingFirst ==
    pc = "backtrack" =>
        \A l \in 1..Len(stack) :
            LET f == stack[l]
            IN  \A a, b \in 1..Len(f.todo) :
                    a < b => Cost(f.variable, f.todo[a], f.assignment)
                                 <= Cost(f.variable, f.todo[b], f.assignment)

\* C13: no step of enforce_node_consistency, revise or ac3 adds a word:
\* every domain after the step is a subset of the domain before it
C13_Monotonicity ==
    [][/\ DOMAIN domains' = DOMAIN domains
       /\ \A v \in DOMAIN domains : domains'[v] \subseteq domains[v]]_vars

\* node consistency and then a revision of ac3 have both removed words
C13_Witness ==
    /\ pc = "ac3"
    /\ \E w \in words : Len(w) = 1
    /\ \E v \in variables :
          /\ domains[v] # {}
          /\ domains[v] # EnforceNodeConsistency(InitialDomains(keys, words))[v]

\* the domain store ac3 is called on by solve()
NodeConsistentDomains == EnforceNodeConsistency(InitialDomains(keys, words))

\* C14: ac3() on an arc-consistent domain store removes no word: when the
\* store ac3 is called on is arc-consistent the domains when it returns are
\* those before the call, and a turn of its loop changes a domain only on a
\* store that is not arc-consistent
C14_Ac3Idempotent ==
    /\ []((pc = "ac3_returned" /\ ArcConsistent(NodeConsistentDomains))
              => domains = NodeConsistentDomains)
    /\ [][(pc = "ac3" /\ domains' # domains) => ~ArcConsistent(domains)]_vars

\* ac3 has returned from an arc-consistent store with overlapping variables
\* that have several words each
C14_Witness ==
    /\ pc = "ac3_returned"
    /\ ac3_result = "True"
    /\ ArcConsistent(NodeConsistentDomains)
    /\ \E x \in variables : neighbors(x) # {} /\ Cardinality(domains[x]) >= 2

C16_WorklistStep ==
    /\ [][(pc = "ac3" /\ arcs # <<>>) =>
            LET x == Head(arcs)[1]
                y == Head(arcs)[2]
                removed == domains'[x] # domains[x]
            IN  /\ ~removed => (pc' = "ac3" /\ arcs' = Tail(arcs))
                /\ (removed /\ domains'[x] # {}) =>
                      /\ pc' = "ac3"
                      /\ \E more \in Perms(neighbors(x) \ {y}) :
                            arcs' = Tail(arcs) \o [k \in 1..Len(more) |-> <<more[k], x>>]
                /\ (removed /\ domains'[x] = {}) =>
                      (pc' = "ac3_returned" /\ ac3_result' = "False")]_vars
    /\ [][ac3_result = "False" => domains' = domains]_vars

\* the last arc of the queue is one appended after a revision that left
\* words in the domain: the list of all arcs ends with the arcs of the last
\* variable of the dict
C16_Witness ==
    /\ pc = "ac3"
    /\ arcs # <<>>
    /\ neighbors(keys[Len(keys)]) # {}
    /\ LET z == arcs[Len(arcs)][1]
           x == arcs[Len(arcs)][2]
       IN  /\ z # keys[Len(keys)]
           /\ domains[x] # {}
           /\ domains[x] # NodeConsistentDomains[x]

\* a step changes no domain and neither the assignment nor the variable of
\* a call that is running before and after it
FrameKept ==
    /\ domains' = domains
    /\ \A l \in 1..Len(stack) :
          l <= Len(stack') => /\ stack'[l].assignment = stack[l].assignment
                              /\ stack'[l].variable = stack[l].variable

\* C17: no step of backtrack, at any depth, changes a domain or the
\* assignment (or the variable) of a call that is still running: when a
\* candidate has failed the caller's assignment is what it was
C17_SearchFrame == [][(pc = "ac3_returned" \/ pc = "backtrack") => FrameKept]_vars

\* a call below the root is back in its loop after the recursive call for a
\* consistent candidate returned None
C17_Witness ==
    /\ pc = "backtrack"
    /\ Len(stack) >= 2
    /\ Top.variable \notin DOMAIN Top.assignment
    /\ \E w \in domains[Top.variable] \ Range(Top.todo) :
          consistent(Extend(Top.assignment, Top.variable, w))

\* a step of solve() can be taken: the statement at pc has no guard, but the
\* loop of ac3 (one of Ac3Step, Ac3ReturnTrue by `while arcs`) and that of
\* backtrack (one of BacktrackTry, BacktrackFail for the call on top)
CanStep ==
    \/ pc \in {"solve", "ac3_call", "ac3", "ac3_returned"}
    \/ pc = "backtrack" /\ stack # <<>>

\* C18: solve() returns: until it has, a step can be taken, and every step
\* lowers Rank, a natural number, so that no run goes on for ever (in ac3 an
\* arc is appended only after a removal); each call of backtrack has more
\* variables assigned than its caller, and the calls nested are never more
\* than the variables
C18_Termination ==
    /\ [](pc = "done" \/ CanStep)
    /\ [](Rank >= 0)
    /\ [][Rank' < Rank]_vars
    /\ [](/\ Len(stack) <= Cardinality(variables)
          /\ \A l \in 1..Len(stack) :
                /\ stack[l].variable \notin DOMAIN stack[l].assignment
                /\ l > 1 => Cardinality(DOMAIN stack[l].assignment)
                               > Cardinality(DOMAIN stack[l - 1].assignment))

\* solve() has returned an assignment of several variables after ac3 removed
\* words from the domain of a variable that has neighbours
C18_Witness ==
    /\ pc = "done"
    /\ result.returned
    /\ ~result.none
    /\ Len(keys) >= 2
    /\ \E v \in variables : domains[v] # NodeConsistentDomains[v] /\ neighbors(v) # {}

\* C19: order_domain_values(var, assignment) returns the words of domain(var),
\* each once, in non-decreasing order of the number of words they rule out
\* of the domains of var's neighbours that are not in the assignment
C19_OrderDomainValues ==
    ret.op = "order_domain_values" =>
        LET out == ret.value
        IN  /\ Len(out) = Cardinality(domains[ret.var])
            /\ Range(out) = domains[ret.var]
            /\ \A a, b \in 1..Len(out) :
                  a < b => Cost(ret.var, out[a], ret.assignment)
                               <= Cost(ret.var, out[b], ret.assignment)

\* the call returned words of different costs, a neighbour being assigned
\* and another not, and a word of the least cost not being the first in the
\* iteration order of the domain
C19_Witness ==
    /\ ret.op = "order_domain_values"
    /\ \E n \in neighbors(ret.var) : n \in DOMAIN ret.assignment
    /\ \E n \in neighbors(ret.var) : n \notin DOMAIN ret.assignment
    /\ Len(ret.value) >= 2
    /\ Cost(ret.var, ret.value[1], ret.assignment)
           < Cost(ret.var, ret.value[Len(ret.value)], ret.assignment)
    /\ ret.value[1] # hash_order[1]

\* what holds of the assignment a call of backtrack receives
SearchState(assignment) ==
    /\ DOMAIN assignment \subseteq variables
    /\ \A v \in DOMAIN assignment : assignment[v] \in domains[v]
    /\ consistent(assignment)
    /\ (Cardinality(DOMAIN assignment) = Cardinality(DOMAIN domains))
           <=> assignment_complete(assignment)

\* C20: in every call of backtrack made by solve(), those running and the one
\* that returned its assignment, the assignment's keys are variables, each
\* word is in the domain of its variable, consistent() holds of it, and
\* len(assignment) == len(domains) exactly when assignment_complete holds
C20_SearchStateInvariant ==
    /\ pc = "backtrack" => \A l \in 1..Len(stack) : SearchState(stack[l].assignment)
    /\ (result.returned /\ ~result.none) => SearchState(result.assignment)

\* a call two levels below the root is running, two variables assigned and
\* one not
C20_Witness ==
    /\ pc = "backtrack"
    /\ Len(stack) >= 3
    /\ Cardinality(DOMAIN Top.assignment) = 2
    /\ ~assignment_complete(Top.assignment)

====
